---- MODULE Spec2Model ----
(***************************************************************************)
(* Model of the email validation API server (package main): startup        *)
(* (main), the auth middleware (verifyToken), the single-address handler   *)
(* (GetEmailVerification) and the concurrent bulk handler                  *)
(* (BulkEmailVerification) with its per-address goroutines, WaitGroup and  *)
(* Mutex.  The verification library (emailVerifier) is external: a call    *)
(* to Verify is a nondeterministic choice among the returns its signature  *)
(* (a Result pointer and an error) allows.                                 *)
(***************************************************************************)
EXTENDS Integers, Sequences, FiniteSets, Bags, TLC

VARIABLES env, proc, req, hpc, invoked, i, wg, mu, workers, results, returned, jerr, resp

vars == <<env, proc, req, hpc, invoked, i, wg, mu, workers, results, returned, jerr, resp>>

(***************************************************************************)
(* Bounds and program constants                                            *)
(***************************************************************************)
\* var MAX_EMAILS = 15
MAX_EMAILS == 15

\* longest batch whose addresses and verification returns vary freely
MaxBatch == 2

\* connections the server handles; a workload uses one or both
Reqs == {1, 2}

\* addresses of the freely varying batches; "b" is not a well-formed address
Addrs == {"a@x.io", "b"}

\* address that fills the batches at the size limit
Filler == "c@x.io"

Range(s) == {s[k] : k \in DOMAIN s}

BagOfSeq(s) == [x \in Range(s) |-> Cardinality({k \in DOMAIN s : s[k] = x})]

Repeat(x, n) == [k \in 1..n |-> x]

SeqsUpTo(S, n) == UNION {[1..k -> S] : k \in 0..n}

(***************************************************************************)
(* The verification capability: result, err := verifier.Verify(email)      *)
(* A pointer is <<>> (nil) or <<value>>; an error is <<>> (nil) or <<msg>>, *)
(* msg being what err.Error() returns.                                     *)
(***************************************************************************)
SyntaxValid(email) == email # "b"

ResultOf(email) == [Syntax |-> SyntaxValid(email)]

VerifyReturns(email) ==
    IF email = Filler
    THEN {[result |-> <<ResultOf(email)>>, err |-> <<>>]}
    ELSE {[result |-> <<ResultOf(email)>>, err |-> <<>>],
          [result |-> <<>>,                err |-> <<"lookup failed">>],
          [result |-> <<ResultOf(email)>>, err |-> <<"lookup failed">>],
          [result |-> <<>>,                err |-> <<"">>],
          [result |-> <<>>,                err |-> <<>>]}

NoRet == [result |-> <<>>, err |-> <<"pending">>]


(***************************************************************************)
(* Environment variables and main                                          *)
(***************************************************************************)
\* the environment after godotenv.Load; "" is an unset variable (os.Getenv)
Envs == [AUTH_TOKEN : {"", "tok"}, PROXY_URL : {"", "http://proxy"},
         FROM_EMAIL : {"", "from@x.io"}, HELO_NAME : {"", "helo.x.io"}]

\* the log.Fatal calls of main
mainFatal(e) ==
    \/ e.AUTH_TOKEN = ""
    \/ e.FROM_EMAIL = "" \/ e.HELO_NAME = ""

(***************************************************************************)
(* Requests and responses                                                  *)
(***************************************************************************)
\* values of the Authorization header; "" is a missing header (Header.Get)
Headers == {"", "tok", "bad"}

NoReq == [route |-> "none", auth |-> "", malformed |-> FALSE, emails |-> <<>>]

\* GET /v1/:email/verification
SingleReqs == [route : {"single"}, auth : Headers, malformed : {FALSE},
               emails : {<<e>> : e \in Addrs}]

\* bodies of POST /v1/bulk: undecodable, free batches, batches at the limit
BulkBodies ==
    {[malformed |-> TRUE, emails |-> <<>>]}
    \cup {[malformed |-> FALSE, emails |-> s] : s \in SeqsUpTo(Addrs, MaxBatch)}
    \cup {[malformed |-> FALSE, emails |-> Repeat(Filler, n)] :
             n \in {MAX_EMAILS, MAX_EMAILS + 1}}

BulkReqs == {[route |-> "bulk", auth |-> h, malformed |-> b.malformed,
              emails |-> b.emails] : h \in Headers, b \in BulkBodies}

\* two bulk requests handled at the same time
PairReqs == {[route |-> "bulk", auth |-> "tok", malformed |-> FALSE,
              emails |-> <<e>>] : e \in Addrs}

Workloads ==
    {[r \in Reqs |-> IF r = 1 THEN q ELSE NoReq] : q \in SingleReqs \cup BulkReqs}
    \cup {[r \in Reqs |-> IF r = 1 THEN q1 ELSE q2] : q1 \in PairReqs, q2 \in PairReqs}

NoResp == [status |-> 0, ctype |-> "none", body |-> <<>>]

\* http.Error(w, msg, code)
httpError(msg, code) == [status |-> code, ctype |-> "text/plain", body |-> <<msg>>]

respondWithError(status, errMsg) ==
    [status |-> status, ctype |-> "application/json", body |-> <<[error |-> errMsg]>>]

\* a handler that panicked: net/http closes the connection, nothing is written
Aborted == [status |-> 0, ctype |-> "aborted", body |-> <<>>]

(***************************************************************************)
(* verifyToken                                                             *)
(***************************************************************************)
\* verifyTokenOutcome without the test for a missing header
verifyTokenOutcomeNoEmptyCheck(authToken, expectedToken) ==
    IF authToken # expectedToken
    THEN httpError("Invalid authorization token", 403)
    ELSE [status |-> 0, ctype |-> "next", body |-> <<>>]

\* "next" when the wrapped handler is called, else the rejection
verifyTokenOutcome(authToken, expectedToken) ==
    IF authToken = ""
    THEN httpError("Authorization token is required", 401)
    ELSE IF authToken # expectedToken
         THEN httpError("Invalid authorization token", 403)
         ELSE [status |-> 0, ctype |-> "next", body |-> <<>>]

(***************************************************************************)
(* json.Marshal of the values the handlers write                           *)
(***************************************************************************)
ResultJSON(result) ==
    IF result.Syntax THEN "{\"syntax\":{\"valid\":true}}"
    ELSE "{\"syntax\":{\"valid\":false}}"

\* BulkVerificationResult with its json tags: email always, result and error
\* only when non-empty (omitempty)
MarshalResult(res) ==
    LET keys == {"email"}
                \cup (IF res.Result # <<>> THEN {"result"} ELSE {})
                \cup (IF res.Error # "" THEN {"error"} ELSE {})
    IN [k \in keys |-> CASE k = "email" -> res.Email
                         [] k = "result" -> ResultJSON(res.Result[1])
                         [] k = "error" -> res.Error]

Marshal(rs) == [k \in DOMAIN rs |-> MarshalResult(rs[k])]

(***************************************************************************)
(* GetEmailVerification, given what Verify returned and whether            *)
(* json.Marshal succeeds                                                   *)
(***************************************************************************)
GetEmailVerificationConfigMissing(e) == e.FROM_EMAIL = "" \/ e.HELO_NAME = ""

\* GetEmailVerificationResp answering a failed verification with http.Error
GetEmailVerificationRespPlainError(e, ret, marshalOk) ==
    IF GetEmailVerificationConfigMissing(e)
    THEN httpError("FROM_EMAIL and HELO_NAME must be set in environment variables", 500)
    ELSE IF ret.err # <<>>
    THEN httpError(ret.err[1], 500)
    ELSE IF ret.result = <<>>
    THEN Aborted
    ELSE IF ~ret.result[1].Syntax
    THEN [status |-> 200, ctype |-> "text/plain",
          body |-> <<"email address syntax is invalid">>]
    ELSE IF ~marshalOk
    THEN respondWithError(500, "json: error")
    ELSE [status |-> 200, ctype |-> "text/plain", body |-> <<ResultJSON(ret.result[1])>>]

GetEmailVerificationResp(e, ret, marshalOk) ==
    IF GetEmailVerificationConfigMissing(e)
    THEN httpError("FROM_EMAIL and HELO_NAME must be set in environment variables", 500)
    ELSE IF ret.err # <<>>
    THEN respondWithError(500, ret.err[1])
    ELSE IF ret.result = <<>>
    THEN Aborted
    ELSE IF ~ret.result[1].Syntax
    THEN [status |-> 200, ctype |-> "text/plain",
          body |-> <<"email address syntax is invalid">>]
    ELSE IF ~marshalOk
    THEN respondWithError(500, "json: error")
    ELSE [status |-> 200, ctype |-> "text/plain", body |-> <<ResultJSON(ret.result[1])>>]

(***************************************************************************)
(* BulkEmailVerification: decoding and validation                          *)
(***************************************************************************)
\* BulkValidate with the size test written >= instead of >
BulkValidateOffByOne(q) ==
    IF q.malformed
    THEN httpError("{\"error\": \"Invalid request format\"}", 400)
    ELSE IF Len(q.emails) = 0
    THEN httpError("{\"error\": \"No emails provided\"}", 400)
    ELSE IF Len(q.emails) >= MAX_EMAILS
    THEN httpError(<<"{\"error\": \"Too many emails provided (max ", MAX_EMAILS, ")\"}">>, 400)
    ELSE NoResp

\* the 400 the handler answers with, or NoResp when the request is valid
BulkValidate(q) ==
    IF q.malformed
    THEN httpError("{\"error\": \"Invalid request format\"}", 400)
    ELSE IF Len(q.emails) = 0
    THEN httpError("{\"error\": \"No emails provided\"}", 400)
    ELSE IF Len(q.emails) > MAX_EMAILS
    THEN httpError(<<"{\"error\": \"Too many emails provided (max ", MAX_EMAILS, ")\"}">>, 400)
    ELSE NoResp

\* res := BulkVerificationResult{Email: email}; then Error or Result
MakeResult(email, ret) ==
    IF ret.err # <<>>
    THEN [Email |-> email, Result |-> <<>>, Error |-> ret.err[1]]
    ELSE [Email |-> email, Result |-> ret.result, Error |-> ""]


(***************************************************************************)
(* State.  env: the process environment; proc: where main is; per          *)
(* connection r: req the request, hpc where its handler is, invoked the    *)
(* handler verifyToken called, i the addresses the loop has started, wg    *)
(* the WaitGroup counter, mu the Mutex, workers the goroutines alive (a    *)
(* bag of their local states), results the slice under construction, resp  *)
(* the response written, jerr the error json.Marshal returned in the bulk  *)
(* handler.  returned records every return of Verify.                      *)
(***************************************************************************)
Init ==
    /\ env \in Envs
    /\ proc = "starting"
    /\ req \in Workloads
    /\ hpc = [r \in Reqs |-> "idle"]
    /\ invoked = [r \in Reqs |-> "none"]
    /\ i = [r \in Reqs |-> 0]
    /\ wg = [r \in Reqs |-> 0]
    /\ mu = [r \in Reqs |-> FALSE]
    /\ workers = [r \in Reqs |-> EmptyBag]
    /\ results = [r \in Reqs |-> <<>>]
    /\ returned = [r \in Reqs |-> EmptyBag]
    /\ jerr = [r \in Reqs |-> <<>>]
    /\ resp = [r \in Reqs |-> NoResp]

\* func main: fatal on missing configuration, else ListenAndServe
main ==
    /\ proc = "starting"
    /\ proc' = IF mainFatal(env) THEN "exited" ELSE "serving"
    /\ UNCHANGED <<env, req, hpc, invoked, i, wg, mu, workers, results, returned, resp, jerr>>

HandlerOf(route) ==
    IF route = "single" THEN "GetEmailVerification" ELSE "BulkEmailVerification"

\* verifyToken without the return after http.Error: the handler is called
\* after a rejection too
verifyTokenFallsThrough(r) ==
    /\ proc = "serving"
    /\ hpc[r] = "idle"
    /\ req[r].route # "none"
    /\ LET out == verifyTokenOutcome(req[r].auth, env.AUTH_TOKEN)
       IN /\ hpc' = [hpc EXCEPT ![r] = "handler"]
          /\ invoked' = [invoked EXCEPT ![r] = HandlerOf(req[r].route)]
          /\ resp' = IF out.ctype = "next" THEN resp ELSE [resp EXCEPT ![r] = out]
    /\ UNCHANGED <<env, proc, req, i, wg, mu, workers, results, returned, jerr>>

\* the middleware of both routes
verifyToken(r) ==
    /\ proc = "serving"
    /\ hpc[r] = "idle"
    /\ req[r].route # "none"
    /\ LET out == verifyTokenOutcome(req[r].auth, env.AUTH_TOKEN)
       IN IF out.ctype = "next"
          THEN /\ hpc' = [hpc EXCEPT ![r] = "handler"]
               /\ invoked' = [invoked EXCEPT ![r] = HandlerOf(req[r].route)]
               /\ resp' = resp
          ELSE /\ hpc' = [hpc EXCEPT ![r] = "done"]
               /\ invoked' = invoked
               /\ resp' = [resp EXCEPT ![r] = out]
    /\ UNCHANGED <<env, proc, req, i, wg, mu, workers, results, returned, jerr>>

\* the single-address handler, synchronous
GetEmailVerification(r) ==
    /\ hpc[r] = "handler"
    /\ invoked[r] = "GetEmailVerification"
    /\ \E ret \in VerifyReturns(req[r].emails[1]), marshalOk \in BOOLEAN :
          /\ resp' = [resp EXCEPT ![r] = GetEmailVerificationResp(env, ret, marshalOk)]
          /\ returned' = [returned EXCEPT ![r] =
                IF GetEmailVerificationConfigMissing(env) THEN @
                ELSE @ (+) SetToBag({[email |-> req[r].emails[1], ret |-> ret]})]
    /\ hpc' = [hpc EXCEPT ![r] = "done"]
    /\ UNCHANGED <<env, proc, req, invoked, i, wg, mu, workers, results, jerr>>

\* BulkEmailVerification up to the loop: decode and validate
BulkDecode(r) ==
    /\ hpc[r] = "handler"
    /\ invoked[r] = "BulkEmailVerification"
    /\ LET bad == BulkValidate(req[r])
       IN IF bad.status = 0
          THEN /\ hpc' = [hpc EXCEPT ![r] = "loop"]
               /\ resp' = resp
          ELSE /\ hpc' = [hpc EXCEPT ![r] = "done"]
               /\ resp' = [resp EXCEPT ![r] = bad]
    /\ UNCHANGED <<env, proc, req, invoked, i, wg, mu, workers, results, returned, jerr>>

\* BulkSpawn with the closure reading the loop variable instead of taking the
\* address as its argument: every goroutine sees the last address
BulkSpawnSharedLoopVar(r) ==
    /\ hpc[r] = "loop"
    /\ i[r] < Len(req[r].emails)
    /\ i' = [i EXCEPT ![r] = @ + 1]
    /\ wg' = [wg EXCEPT ![r] = @ + 1]
    /\ workers' = [workers EXCEPT ![r] =
          @ (+) SetToBag({[email |-> req[r].emails[Len(req[r].emails)],
                           pc |-> "verify", ret |-> NoRet]})]
    /\ UNCHANGED <<env, proc, req, hpc, invoked, mu, results, returned, resp, jerr>>

\* one iteration of the loop: wg.Add(1); go func(email){...}(email)
BulkSpawn(r) ==
    /\ hpc[r] = "loop"
    /\ i[r] < Len(req[r].emails)
    /\ i' = [i EXCEPT ![r] = @ + 1]
    /\ wg' = [wg EXCEPT ![r] = @ + 1]
    /\ workers' = [workers EXCEPT ![r] =
          @ (+) SetToBag({[email |-> req[r].emails[i[r] + 1], pc |-> "verify", ret |-> NoRet]})]
    /\ UNCHANGED <<env, proc, req, hpc, invoked, mu, results, returned, resp, jerr>>

\* the goroutines of connection r that are at pc
At(r, pc) == {w \in BagToSet(workers[r]) : w.pc = pc}

Move(r, w, w2) == [workers EXCEPT ![r] = (@ (-) SetToBag({w})) (+) SetToBag({w2})]

\* WorkerVerify that calls Verify again when it returned an error
WorkerVerifyRetry(r) ==
    \E w \in At(r, "verify") : \E ret \in VerifyReturns(w.email) :
        /\ workers' = Move(r, w, IF ret.err # <<>> THEN w
                                 ELSE [w EXCEPT !.pc = "lock", !.ret = ret])
        /\ returned' = [returned EXCEPT ![r] =
              @ (+) SetToBag({[email |-> w.email, ret |-> ret]})]
        /\ UNCHANGED <<env, proc, req, hpc, invoked, i, wg, mu, results, resp, jerr>>

\* result, err := verifier.Verify(email) returns
WorkerVerify(r) ==
    \E w \in At(r, "verify") : \E ret \in VerifyReturns(w.email) :
        /\ workers' = Move(r, w, [w EXCEPT !.pc = "lock", !.ret = ret])
        /\ returned' = [returned EXCEPT ![r] =
              @ (+) SetToBag({[email |-> w.email, ret |-> ret]})]
        /\ UNCHANGED <<env, proc, req, hpc, invoked, i, wg, mu, results, resp, jerr>>

\* CanLock of a lock that never blocks
CanLockUnguarded(r) == TRUE

\* mu.Lock() can return
CanLock(r) == ~mu[r]

WorkerLock(r) ==
    \E w \in At(r, "lock") :
        /\ CanLock(r)
        /\ mu' = [mu EXCEPT ![r] = TRUE]
        /\ workers' = Move(r, w, [w EXCEPT !.pc = "append"])
        /\ UNCHANGED <<env, proc, req, hpc, invoked, i, wg, results, returned, resp, jerr>>

\* WorkerAppend that drops the outcome of a failed verification
WorkerAppendSkipFailed(r) ==
    \E w \in At(r, "append") :
        /\ results' = [results EXCEPT ![r] =
              IF w.ret.err # <<>> THEN @ ELSE Append(@, MakeResult(w.email, w.ret))]
        /\ workers' = Move(r, w, [w EXCEPT !.pc = "unlock"])
        /\ UNCHANGED <<env, proc, req, hpc, invoked, i, wg, mu, returned, resp, jerr>>

\* WorkerAppend with err shared by the goroutines: once a verification has
\* failed, its error is what later outcomes carry
WorkerAppendSharedErr(r) ==
    \E w \in At(r, "append") :
        /\ LET failed == {k \in DOMAIN results[r] : results[r][k].Error # ""}
               res == IF failed = {} THEN MakeResult(w.email, w.ret)
                      ELSE [Email |-> w.email, Result |-> <<>>,
                            Error |-> results[r][CHOOSE k \in failed : TRUE].Error]
           IN results' = [results EXCEPT ![r] = Append(@, res)]
        /\ workers' = Move(r, w, [w EXCEPT !.pc = "unlock"])
        /\ UNCHANGED <<env, proc, req, hpc, invoked, i, wg, mu, returned, resp, jerr>>

\* WorkerAppend that puts the outcome in front of the slice
WorkerAppendInFront(r) ==
    \E w \in At(r, "append") :
        /\ results' = [results EXCEPT ![r] = <<MakeResult(w.email, w.ret)>> \o @]
        /\ workers' = Move(r, w, [w EXCEPT !.pc = "unlock"])
        /\ UNCHANGED <<env, proc, req, hpc, invoked, i, wg, mu, returned, resp, jerr>>

\* results = append(results, res)
WorkerAppend(r) ==
    \E w \in At(r, "append") :
        /\ results' = [results EXCEPT ![r] = Append(@, MakeResult(w.email, w.ret))]
        /\ workers' = Move(r, w, [w EXCEPT !.pc = "unlock"])
        /\ UNCHANGED <<env, proc, req, hpc, invoked, i, wg, mu, returned, resp, jerr>>

\* WorkerUnlock of a goroutine that returns without releasing the lock
WorkerUnlockKeepsLock(r) ==
    \E w \in At(r, "unlock") :
        /\ mu' = mu
        /\ workers' = Move(r, w, [w EXCEPT !.pc = "exit"])
        /\ UNCHANGED <<env, proc, req, hpc, invoked, i, wg, results, returned, resp, jerr>>

\* mu.Unlock()
WorkerUnlock(r) ==
    \E w \in At(r, "unlock") :
        /\ mu' = [mu EXCEPT ![r] = FALSE]
        /\ workers' = Move(r, w, [w EXCEPT !.pc = "exit"])
        /\ UNCHANGED <<env, proc, req, hpc, invoked, i, wg, results, returned, resp, jerr>>

\* the deferred wg.Done(); the goroutine ends
WorkerDone(r) ==
    \E w \in At(r, "exit") :
        /\ wg' = [wg EXCEPT ![r] = @ - 1]
        /\ workers' = [workers EXCEPT ![r] = @ (-) SetToBag({w})]
        /\ UNCHANGED <<env, proc, req, hpc, invoked, i, mu, results, returned, resp, jerr>>

\* CanPassWait of a handler that does not wait
CanPassWaitEarly(r) == TRUE

\* CanPassWait with one WaitGroup for the package instead of one per call
CanPassWaitShared(r) == \A q \in Reqs : wg[q] = 0

\* wg.Wait() can return
CanPassWait(r) == wg[r] = 0

BulkWait(r) ==
    /\ hpc[r] = "loop"
    /\ i[r] = Len(req[r].emails)
    /\ CanPassWait(r)
    /\ hpc' = [hpc EXCEPT ![r] = "marshal"]
    /\ UNCHANGED <<env, proc, req, invoked, i, wg, mu, workers, results, returned, resp, jerr>>

\* response, err := json.Marshal(results)
BulkMarshal(r) ==
    /\ hpc[r] = "marshal"
    /\ \E e \in {<<>>, <<"json: unsupported value">>} : jerr' = [jerr EXCEPT ![r] = e]
    /\ hpc' = [hpc EXCEPT ![r] = "write"]
    /\ UNCHANGED <<env, proc, req, invoked, i, wg, mu, workers, results, returned, resp>>

\* BulkRespondWith that fails the whole request when an address failed
BulkRespondWithFailFast(rs, err) ==
    IF err # <<>> \/ \E k \in DOMAIN rs : rs[k].Error # ""
    THEN httpError("{\"error\": \"Failed to format response\"}", 500)
    ELSE [status |-> 200, ctype |-> "application/json", body |-> Marshal(rs)]

\* the 500 when err != nil, else WriteHeader(200) and Write(response)
BulkRespondWith(rs, err) ==
    IF err # <<>>
    THEN httpError("{\"error\": \"Failed to format response\"}", 500)
    ELSE [status |-> 200, ctype |-> "application/json", body |-> Marshal(rs)]

BulkRespond(r) ==
    /\ hpc[r] = "write"
    /\ resp' = [resp EXCEPT ![r] = BulkRespondWith(results[r], jerr[r])]
    /\ hpc' = [hpc EXCEPT ![r] = "done"]
    /\ UNCHANGED <<env, proc, req, invoked, i, wg, mu, workers, results, returned, jerr>>

Next ==
    \/ main
    \/ \E r \in Reqs : verifyToken(r)
    \/ \E r \in Reqs : GetEmailVerification(r)
    \/ \E r \in Reqs : BulkDecode(r)
    \/ \E r \in Reqs : BulkSpawn(r)
    \/ \E r \in Reqs : WorkerVerify(r)
    \/ \E r \in Reqs : WorkerLock(r)
    \/ \E r \in Reqs : WorkerAppend(r)
    \/ \E r \in Reqs : WorkerUnlock(r)
    \/ \E r \in Reqs : WorkerDone(r)
    \/ \E r \in Reqs : BulkWait(r)
    \/ \E r \in Reqs : BulkMarshal(r)
    \/ \E r \in Reqs : BulkRespond(r)

Spec == Init /\ [][Next]_vars


\* Every goroutine that can take a step eventually takes one (the Go scheduler
\* is preemptive), and every call of Verify eventually returns
Fairness ==
    /\ WF_vars(main)
    /\ \A r \in Reqs :
          /\ WF_vars(verifyToken(r))
          /\ WF_vars(GetEmailVerification(r))
          /\ WF_vars(BulkDecode(r))
          /\ WF_vars(BulkSpawn(r))
          /\ WF_vars(WorkerVerify(r))
          /\ WF_vars(WorkerLock(r))
          /\ WF_vars(WorkerAppend(r))
          /\ WF_vars(WorkerUnlock(r))
          /\ WF_vars(WorkerDone(r))
          /\ WF_vars(BulkWait(r))
          /\ WF_vars(BulkMarshal(r))
          /\ WF_vars(BulkRespond(r))

FairSpec == Spec /\ Fairness

(***************************************************************************)
(* The single-address route on its own: verifyToken(GetEmailVerification)  *)
(* called in any environment.  Both functions read the environment with    *)
(* os.Getenv on every call, whatever main checked.                         *)
(***************************************************************************)
InitSingle ==
    /\ env \in Envs
    /\ proc = "serving"
    /\ req \in {[r \in Reqs |-> IF r = 1 THEN q ELSE NoReq] : q \in SingleReqs}
    /\ hpc = [r \in Reqs |-> "idle"]
    /\ invoked = [r \in Reqs |-> "none"]
    /\ i = [r \in Reqs |-> 0]
    /\ wg = [r \in Reqs |-> 0]
    /\ mu = [r \in Reqs |-> FALSE]
    /\ workers = [r \in Reqs |-> EmptyBag]
    /\ results = [r \in Reqs |-> <<>>]
    /\ returned = [r \in Reqs |-> EmptyBag]
    /\ jerr = [r \in Reqs |-> <<>>]
    /\ resp = [r \in Reqs |-> NoResp]

NextSingle ==
    \/ \E r \in Reqs : verifyToken(r)
    \/ \E r \in Reqs : GetEmailVerification(r)

SpecSingle == InitSingle /\ [][NextSingle]_vars

(***************************************************************************)
(* Properties                                                              *)
(***************************************************************************)
\* connection r carries a bulk request that passed authentication
BulkInvoked(r) == invoked[r] = "BulkEmailVerification"

\* connection r carries a bulk request with a decodable body of 1 to 15 addresses
ValidBatch(r) ==
    /\ req[r].route = "bulk"
    /\ ~req[r].malformed
    /\ Len(req[r].emails) \in 1..15

\* the handler of r is past wg.Wait()
PastJoin(r) == BulkInvoked(r) /\ ValidBatch(r) /\ hpc[r] \in {"marshal", "write", "done"}

\* r was answered 200 with the serialized results
Answered200(r) == hpc[r] = "done" /\ BulkInvoked(r) /\ resp[r].status = 200

RECURSIVE BagSum(_, _)
BagSum(S, B) ==
    IF S = {} THEN 0
    ELSE LET x == CHOOSE y \in S : TRUE IN B[x] + BagSum(S \ {x}, B)

\* C1: for a valid batch, the results the handler serializes, and the array it
\* writes, have exactly as many outcomes as the request has addresses
C1_CountEqualsInput ==
    \A r \in Reqs :
        /\ PastJoin(r) => Len(results[r]) = Len(req[r].emails)
        /\ Answered200(r) => Len(resp[r].body) = Len(req[r].emails)

C1_Witness ==
    \E r \in Reqs : Answered200(r) /\ Len(req[r].emails) = 15
                    /\ Len(resp[r].body) = 15

\* C2: once dispatch has completed, the Email fields of the outcomes are, as a
\* multiset, the input addresses
C2_EmailsAreInputs ==
    \A r \in Reqs :
        /\ PastJoin(r) =>
              BagOfSeq([k \in DOMAIN results[r] |-> results[r][k].Email])
                  = BagOfSeq(req[r].emails)
        /\ Answered200(r) =>
              BagOfSeq([k \in DOMAIN resp[r].body |-> resp[r].body[k]["email"]])
                  = BagOfSeq(req[r].emails)

\* an address submitted twice appears twice; two different ones once each
C2_Witness ==
    \E r \in Reqs : Answered200(r) /\ Len(req[r].emails) = 2
                    /\ req[r].emails[1] = req[r].emails[2]
                    /\ resp[r].body[1]["email"] = req[r].emails[1]
                    /\ resp[r].body[2]["email"] = req[r].emails[1]

\* C3: every outcome of a bulk response carries exactly one of a result and an
\* error, in the record and in its JSON object
C3_ExactlyOneOfResultAndError ==
    \A r \in Reqs :
        /\ BulkInvoked(r) =>
              \A k \in DOMAIN results[r] :
                  (results[r][k].Result # <<>>) # (results[r][k].Error # "")
        /\ Answered200(r) =>
              \A k \in DOMAIN resp[r].body :
                  ("result" \in DOMAIN resp[r].body[k]) # ("error" \in DOMAIN resp[r].body[k])

\* C4: the response is marshalled and written only when no goroutine of the
\* request is alive: each has returned from Verify, appended and called Done
C4_RespondsAfterJoin ==
    \A r \in Reqs :
        (BulkInvoked(r) /\ (hpc[r] \in {"marshal", "write"} \/ resp[r].status \in {200, 500})) =>
            /\ BagToSet(workers[r]) = {}
            /\ wg[r] = 0
            /\ BagCardinality(returned[r]) = Len(req[r].emails)

\* a goroutine still inside Verify while the others have finished, and the
\* handler still waiting
C4_Witness ==
    \E r \in Reqs :
        /\ hpc[r] = "loop" /\ i[r] = 15
        /\ BagCardinality(workers[r]) = 1
        /\ At(r, "verify") # {}
        /\ Len(results[r]) = 14
        /\ resp[r] = NoResp

\* the outcome a return of Verify stands for: the error message when it
\* failed, the result otherwise
OutcomeFor(c) ==
    [Email |-> c.email,
     Result |-> IF c.ret.err = <<>> THEN c.ret.result ELSE <<>>,
     Error |-> IF c.ret.err = <<>> THEN "" ELSE c.ret.err[1]]

CountReturned(r, o) ==
    BagSum({c \in BagToSet(returned[r]) : OutcomeFor(c) = o}, returned[r])

CountRecorded(r, o) == Cardinality({k \in DOMAIN results[r] : results[r][k] = o})

CountInHand(r, o) ==
    BagSum({w \in At(r, "lock") \cup At(r, "append") :
               OutcomeFor([email |-> w.email, ret |-> w.ret]) = o}, workers[r])

\* C5: every return of Verify is recorded as the outcome it stands for, whatever
\* the other addresses of the batch returned: the outcomes recorded, with those
\* about to be, are exactly the outcomes of the returns so far
C5_FaultIsolation ==
    \A r \in Reqs :
        BulkInvoked(r) =>
            \A o \in Range(results[r]) \cup {OutcomeFor(c) : c \in BagToSet(returned[r])} :
                CountRecorded(r, o) + CountInHand(r, o) = CountReturned(r, o)

\* an address that failed first, and one that succeeded after it
C5_Witness ==
    \E r \in Reqs :
        /\ Answered200(r) /\ Len(results[r]) = 2
        /\ results[r][1].Error # ""
        /\ results[r][2].Result # <<>> /\ results[r][2].Error = ""

\* goroutines of r between mu.Lock() and mu.Unlock()
Holders(r) == BagSum(At(r, "append") \cup At(r, "unlock"), workers[r])

\* C6: at most one goroutine of a request is between Lock and Unlock, the lock
\* is held exactly then, and its holder has returned from Verify
C6_LockAroundAppendOnly ==
    \A r \in Reqs :
        /\ Holders(r) <= 1
        /\ mu[r] <=> Holders(r) = 1
        /\ \A w \in At(r, "append") \cup At(r, "unlock") : w.ret # NoRet
        /\ \A w \in At(r, "verify") : w.ret = NoRet

\* two goroutines inside Verify while a third holds the lock
C6_Witness ==
    \E r \in Reqs :
        /\ mu[r] /\ Holders(r) = 1
        /\ BagSum(At(r, "verify"), workers[r]) >= 2

\* C7: an authenticated bulk request is answered 400 exactly when its body is
\* malformed or has 0 or more than 15 addresses; 16 addresses get a 400 that
\* names 15
C7_BadRequestIff ==
    \A r \in Reqs :
        (BulkInvoked(r) /\ hpc[r] = "done") =>
            /\ resp[r].status = 400 <=>
                  (req[r].malformed \/ Len(req[r].emails) = 0 \/ Len(req[r].emails) > 15)
            /\ Len(req[r].emails) = 16 => resp[r].body[1][2] = 15

C7_Witness ==
    \E r \in Reqs : BulkInvoked(r) /\ hpc[r] = "done"
                    /\ Len(req[r].emails) = 15 /\ resp[r].status = 200

\* C8: a valid authenticated batch is answered 200 with one outcome per address
\* whatever the verifications returned, and 500 only when json.Marshal failed
C8_FailuresDoNotEscalate ==
    \A r \in Reqs :
        (BulkInvoked(r) /\ ValidBatch(r) /\ hpc[r] = "done") =>
            IF jerr[r] = <<>>
            THEN resp[r].status = 200 /\ Len(resp[r].body) = Len(req[r].emails)
            ELSE resp[r].status = 500

\* every verification of the batch failed
C8_Witness ==
    \E r \in Reqs :
        /\ Answered200(r) /\ Len(req[r].emails) = 2
        /\ \A k \in DOMAIN resp[r].body : "error" \in DOMAIN resp[r].body[k]

\* C9: once the middleware has run: 401 and no handler for a missing header,
\* 403 and no handler for a header that differs from AUTH_TOKEN, the route's
\* handler for a header equal to it
C9_AuthOutcomes ==
    \A r \in Reqs :
        hpc[r] # "idle" =>
            /\ req[r].auth = "" => invoked[r] = "none" /\ resp[r].status = 401
            /\ (req[r].auth # "" /\ req[r].auth # env.AUTH_TOKEN) =>
                  invoked[r] = "none" /\ resp[r].status = 403
            /\ (req[r].auth # "" /\ req[r].auth = env.AUTH_TOKEN) =>
                  /\ invoked[r] = HandlerOf(req[r].route)
                  /\ resp[r].status \notin {401, 403}
            /\ invoked[r] # "none" => (req[r].auth # "" /\ req[r].auth = env.AUTH_TOKEN)

C9_Witness ==
    \E r \in Reqs : req[r].route = "single" /\ req[r].auth = ""
                    /\ hpc[r] = "done" /\ resp[r].status = 401

\* C10: the server serves only when AUTH_TOKEN, PROXY_URL, FROM_EMAIL and
\* HELO_NAME are all set, and exits when one of them is not
C10_FatalOnMissingConfig ==
    proc # "starting" =>
        (proc = "serving" <=>
            (env.AUTH_TOKEN # "" /\ env.PROXY_URL # ""
             /\ env.FROM_EMAIL # "" /\ env.HELO_NAME # ""))


\* calls of Verify for address e by request r: those that returned and those
\* still running
CallsFor(r, e) ==
    BagSum({c \in BagToSet(returned[r]) : c.email = e}, returned[r])
    + BagSum({w \in At(r, "verify") : w.email = e}, workers[r])

\* C11: Verify has been called once for each position the loop has passed, not
\* more and not less, once for every position when the join is passed; the
\* goroutines alive are never more than the addresses of the batch, nor than 15
C11_OncePerPosition ==
    \A r \in Reqs :
        BulkInvoked(r) =>
            /\ \A e \in Addrs \cup {Filler} :
                  CallsFor(r, e) = Cardinality({k \in 1..i[r] : req[r].emails[k] = e})
            /\ PastJoin(r) => i[r] = Len(req[r].emails)
            /\ BagCardinality(workers[r]) <= Len(req[r].emails)
            /\ BagCardinality(workers[r]) <= 15
            /\ wg[r] = BagCardinality(workers[r])

\* fifteen verifications in flight at once
C11_Witness ==
    \E r \in Reqs : BagSum(At(r, "verify"), workers[r]) = 15


\* the single-address handler of r has returned
SingleDone(r) == invoked[r] = "GetEmailVerification" /\ hpc[r] = "done"

ConfigAbsent == env.FROM_EMAIL = "" \/ env.HELO_NAME = ""

\* the one return of Verify the handler of r saw
TheReturn(r) == (CHOOSE c \in BagToSet(returned[r]) : TRUE).ret

SyntaxNotice(r) ==
    /\ resp[r].status = 200 /\ resp[r].ctype = "text/plain"
    /\ resp[r].body = <<"email address syntax is invalid">>

\* C12 as stated: 500 and no call of Verify when FROM_EMAIL or HELO_NAME is
\* missing; else one call and a plain-text 500 when it failed, the plain-text
\* notice with 200 when the syntax is invalid, a JSON body with 200 otherwise
\* (it says nothing of a return with neither a result nor an error)
C12_AsStated ==
    \A r \in Reqs :
        SingleDone(r) =>
            IF ConfigAbsent
            THEN resp[r].status = 500 /\ BagToSet(returned[r]) = {}
            ELSE /\ BagCardinality(returned[r]) = 1
                 /\ LET ret == TheReturn(r)
                    IN IF ret.err # <<>>
                       THEN resp[r].status = 500 /\ resp[r].ctype = "text/plain"
                       ELSE IF ret.result = <<>>
                       THEN TRUE
                       ELSE IF ~ret.result[1].Syntax
                       THEN SyntaxNotice(r)
                       ELSE /\ resp[r].status = 200
                            /\ resp[r].body = <<"{\"syntax\":{\"valid\":true}}">>

\* C12 (amended): 500 and no call of Verify when FROM_EMAIL or HELO_NAME is
\* missing; else one call of Verify and: a JSON object {"error": message} with
\* 500 when it failed; no response (the handler panics) when it returned
\* neither a result nor an error; the plain-text notice with 200 when the syntax
\* is invalid; else the result's JSON with 200, or a JSON error object with 500
\* when the result cannot be marshalled
C12_SingleHandler ==
    \A r \in Reqs :
        SingleDone(r) =>
            IF ConfigAbsent
            THEN /\ resp[r].status = 500 /\ resp[r].ctype = "text/plain"
                 /\ BagToSet(returned[r]) = {}
            ELSE /\ BagCardinality(returned[r]) = 1
                 /\ LET ret == TheReturn(r)
                    IN IF ret.err # <<>>
                       THEN /\ resp[r].status = 500
                            /\ resp[r].ctype = "application/json"
                            /\ resp[r].body = <<[error |-> ret.err[1]]>>
                       ELSE IF ret.result = <<>>
                       THEN resp[r].status = 0 /\ resp[r].ctype = "aborted"
                       ELSE IF ~ret.result[1].Syntax
                       THEN SyntaxNotice(r)
                       ELSE \/ /\ resp[r].status = 200
                               /\ resp[r].body = <<"{\"syntax\":{\"valid\":true}}">>
                            \/ /\ resp[r].status = 500
                               /\ resp[r].ctype = "application/json"

\* a failed verification answered by the handler
C12_Witness ==
    \E r \in Reqs :
        /\ SingleDone(r) /\ ~ConfigAbsent
        /\ BagCardinality(returned[r]) = 1
        /\ TheReturn(r).err = <<"lookup failed">>
        /\ resp[r].status = 500


\* C13: under fair scheduling, with every Verify returning, a valid batch is
\* eventually answered; whenever goroutines wait for the lock, one goroutine
\* holds it and is not waiting for anything; and while a Verify of the request
\* has not returned, nothing has been written
C13_JoinLiveness ==
    /\ \A r \in Reqs :
          (BulkInvoked(r) /\ ValidBatch(r)) ~>
              (hpc[r] = "done" /\ resp[r].status \in {200, 500})
    /\ [](\A r \in Reqs : (At(r, "lock") # {} /\ mu[r]) => Holders(r) = 1)
    /\ [](\A r \in Reqs : (BulkInvoked(r) /\ At(r, "verify") # {}) => resp[r].status = 0)

\* goroutines waiting for the lock while another holds it and others are
\* still inside Verify
C13_Witness ==
    \E r \in Reqs :
        /\ mu[r] /\ BagSum(At(r, "lock"), workers[r]) >= 2
        /\ At(r, "verify") # {}
        /\ hpc[r] = "loop" /\ i[r] = Len(req[r].emails)


\* C14: the slice changes only by the lock holder's outcome being put after the
\* outcomes already there, and the array written lists the outcomes in the
\* order of the slice: the k-th append is the k-th element of the response
C14_AppendOrder ==
    [][\A r \in Reqs :
          /\ results'[r] # results[r] =>
                /\ mu[r]
                /\ Len(results'[r]) = Len(results[r]) + 1
                /\ SubSeq(results'[r], 1, Len(results[r])) = results[r]
                /\ \E w \in At(r, "append") :
                      results'[r][Len(results'[r])].Email = w.email
          /\ (hpc'[r] = "done" /\ BulkInvoked(r) /\ resp'[r].status = 200) =>
                /\ Len(resp'[r].body) = Len(results'[r])
                /\ \A k \in DOMAIN results'[r] :
                      resp'[r].body[k]["email"] = results'[r][k].Email]_vars

\* a response in the reverse of the input order
C14_Witness ==
    \E r \in Reqs :
        /\ Answered200(r)
        /\ req[r].emails = <<"a@x.io", "b">>
        /\ resp[r].body[1]["email"] = "b"
        /\ resp[r].body[2]["email"] = "a@x.io"


\* request r has started a goroutine or called Verify
Touched(r) ==
    \/ i[r] > 0 \/ wg[r] # 0
    \/ BagToSet(workers[r]) # {}
    \/ BagToSet(returned[r]) # {}
    \/ results[r] # <<>>

Authenticated(r) == req[r].auth # "" /\ req[r].auth = env.AUTH_TOKEN

\* C15: Verify is called, and goroutines are started, only for a request whose
\* header equals AUTH_TOKEN and, on the bulk route, whose body is a valid
\* batch; a request answered 401, 403 or 400 has started nothing, and a request
\* that fails authentication is answered 401 or 403 whatever its body
C15_VerifyOnlyAfterChecks ==
    \A r \in Reqs :
        /\ Touched(r) =>
              /\ Authenticated(r)
              /\ req[r].route = "bulk" => ValidBatch(r)
        /\ resp[r].status \in {401, 403} => invoked[r] = "none" /\ ~Touched(r)
        /\ resp[r].status = 400 => ~Touched(r)
        /\ (hpc[r] = "done" /\ ~Authenticated(r)) => resp[r].status \in {401, 403}

\* an oversized batch with a wrong token is answered 403
C15_Witness ==
    \E r \in Reqs :
        /\ req[r].route = "bulk" /\ Len(req[r].emails) = 16
        /\ req[r].auth = "bad"
        /\ hpc[r] = "done" /\ resp[r].status = 403


\* C16: with requests in flight at once, every outcome in a request's slice
\* comes from a return of one of its own Verify calls, its response lists only
\* its own addresses, one per address; its join is open once its own goroutines
\* have ended and its lock is free once none of its own goroutines holds it,
\* whatever the other request is doing
C16_RequestsIndependent ==
    \A r \in Reqs :
        BulkInvoked(r) =>
            /\ \A k \in DOMAIN results[r] :
                  \E c \in BagToSet(returned[r]) : OutcomeFor(c) = results[r][k]
            /\ Answered200(r) =>
                  /\ Len(resp[r].body) = Len(req[r].emails)
                  /\ \A k \in DOMAIN resp[r].body :
                        resp[r].body[k]["email"] \in Range(req[r].emails)
            /\ (hpc[r] = "loop" /\ i[r] = Len(req[r].emails) /\ BagToSet(workers[r]) = {})
                  => ENABLED BulkWait(r)
            /\ (At(r, "lock") # {} /\ Holders(r) = 0) => ENABLED WorkerLock(r)

\* one request answered while the other, for another address, is still
\* inside Verify
C16_Witness ==
    \E r \in Reqs, q \in Reqs :
        /\ r # q
        /\ Answered200(r)
        /\ BulkInvoked(q) /\ At(q, "verify") # {}
        /\ req[r].emails # req[q].emails
        /\ resp[r].body[1]["email"] = req[r].emails[1]

====
